---- MODULE Spec2Model ----
(***************************************************************************)
(* Model of BufferStockModel/nvfi.py: obj_bellman, opt_bellman and the     *)
(* prange-parallel solve_bellman.                                          *)
(*                                                                         *)
(* Reals are fixed-point integers: one unit is 1e-8/EPS.  Non-finite       *)
(* floats (+inf, -inf, nan) are three integers outside the finite range,   *)
(* handled by Neg, Add, Mul, Div and Lt as IEEE-754 handles them.          *)
(***************************************************************************)
EXTENDS Integers, Sequences, FiniteSets, TLC

\* ------------------------------------------------------------------ bounds

\* par.Np: number of permanent-income grid points (outer prange iterations)
Np == 2
\* par.Nm: number of cash-on-hand grid points (inner loop iterations)
Nm == 2

\* ------------------------------------------------- extended real arithmetic

PosInf == 2^30
NegInf == -(2^30)
NaN == 2^30 + 1

IsFinite(x) == x > NegInf /\ x < PosInf

Neg(x) ==
    IF x = NaN THEN NaN
    ELSE IF x = PosInf THEN NegInf
    ELSE IF x = NegInf THEN PosInf
    ELSE -x

Add(x, y) ==
    IF x = NaN \/ y = NaN THEN NaN
    ELSE IF x = PosInf THEN (IF y = NegInf THEN NaN ELSE PosInf)
    ELSE IF x = NegInf THEN (IF y = PosInf THEN NaN ELSE NegInf)
    ELSE IF ~IsFinite(y) THEN y
    ELSE x + y

\* x is finite here (a difference of grid values and a query point)
Mul(x, y) ==
    IF y = NaN THEN NaN
    ELSE IF ~IsFinite(y) THEN
        (IF x = 0 THEN NaN
         ELSE IF (x > 0) = (y = PosInf) THEN PosInf ELSE NegInf)
    ELSE x * y

\* d is finite and positive here (a difference of increasing grid values)
Div(x, d) == IF IsFinite(x) THEN x \div d ELSE x

\* the float comparison x < y: false when either side is nan
Lt(x, y) == x # NaN /\ y # NaN /\ x < y

\* np.fmin on finite arguments
fmin(x, y) == IF x < y THEN x ELSE y

\* ------------------------------------------------------------ parameters

\* the literal 1e-8 of the bracket, in units
EPS == 16
\* par.tol, in units
tol == 4
\* par.grid_a: end-of-period asset grid, strictly increasing
grid_a == <<0, 32, 64, 96>>
\* par.grid_p: permanent-income grid, strictly increasing
grid_p == [ip \in 1..Np |-> 10 * ip]
\* scale of the CRRA utility, u(c) = -UScale/c
UScale == 4096

\* -------------------------------------------------------------- utility

\* utility.func(c,par) with risk aversion 2: c**(1-rho)/(1-rho) = -1/c
utility_func(c) ==
    IF c = 0 THEN NegInf
    ELSE IF c > 0 THEN -(UScale \div c)
    ELSE UScale \div (-c)

\* -------------------------------------------------------- linear_interp

\* consav.linear_interp.binary_search: the index j of the segment of grid
\* used for xi, clamped to 0..N-2 (1-based here: 1..N-1)
binary_search(grid, xi) ==
    IF xi <= grid[1] THEN 1
    ELSE IF xi >= grid[Len(grid) - 1] THEN Len(grid) - 1
    ELSE CHOOSE j \in 1..(Len(grid) - 1) : grid[j] <= xi /\ xi < grid[j + 1]

\* consav.linear_interp.interp_1d: linear interpolation, and linear
\* extrapolation along the edge segment outside the grid
interp_1d(grid, value, xi) ==
    LET j == binary_search(grid, xi)
        nom_left == grid[j + 1] - xi
        nom_right == xi - grid[j]
        denom == grid[j + 1] - grid[j]
        nom == Add(Mul(nom_left, value[j]), Mul(nom_right, value[j + 1]))
    IN Div(nom, denom)

\* ---------------------------------------------------------- obj_bellman

obj_bellman_unnegated(c, m, interp_w) ==
    LET a == m - c
        w == interp_1d(grid_a, interp_w, a)
        value_of_choice == Add(utility_func(c), w)
    IN value_of_choice

\* def obj_bellman(c,m,interp_w,par)
obj_bellman(c, m, interp_w) ==
    LET a == m - c
        w == interp_1d(grid_a, interp_w, a)
        value_of_choice == Add(utility_func(c), w)
    IN Neg(value_of_choice)

\* ------------------------------------------------- golden_section_search

\* multiplication by inv_phi = (sqrt(5)-1)/2 and inv_phi_sq = (3-sqrt(5))/2
inv_phi(x) == (x * 8) \div 13
inv_phi_sq(x) == (x * 5) \div 13

\* n = ceil(log(tol/dist)/log(inv_phi)): the number of golden shrinks that
\* bring dist down to tl
RECURSIVE n_iter(_, _)
n_iter(dist, tl) == IF dist <= tl THEN 0 ELSE 1 + n_iter(inv_phi(dist), tl)

RECURSIVE gss_loop(_, _, _, _, _, _, _, _, _, _)
gss_loop(k, a, b, c, d, yc, yd, dist, m, interp_w) ==
    IF k = 0
    THEN IF Lt(yc, yd) THEN (a + d) \div 2 ELSE (c + b) \div 2
    ELSE IF Lt(yc, yd)
    THEN LET dist2 == inv_phi(dist)
             c2 == a + inv_phi_sq(dist2)
         IN gss_loop(k - 1, a, d, c2, c, obj_bellman(c2, m, interp_w), yc,
                     dist2, m, interp_w)
    ELSE LET dist2 == inv_phi(dist)
             d2 == c + inv_phi(dist2)
         IN gss_loop(k - 1, c, b, d, d2, yd, obj_bellman(d2, m, interp_w),
                     dist2, m, interp_w)

\* opt_bellman = golden_section_search.create_optimizer(obj_bellman)
opt_bellman(a, b, tl, m, interp_w) ==
    LET dist == b - a
    IN IF dist <= tl THEN (a + b) \div 2
       ELSE LET n == n_iter(dist, tl)
                c == a + inv_phi_sq(dist)
                d == a + inv_phi(dist)
            IN gss_loop(n - 1, a, b, c, d, obj_bellman(c, m, interp_w),
                        obj_bellman(d, m, interp_w), dist, m, interp_w)

\* ------------------------------------------------------------ the inputs

\* cash-on-hand levels the grids are built from: 0 (zero-width bracket),
\* 8 (m/2 below EPS, bracket no wider than tol), 72 and 80 (m/2 above EPS)
MSet == {0, 8, 72, 80}

\* par.grid_m: every strictly increasing grid of Nm levels
Grids == {g \in [1..Nm -> MSet] : \A i \in 1..(Nm - 1) : g[i] < g[i + 1]}

\* rows of sol.w on grid_a: constant; non-decreasing with a convex kink;
\* not a number in every entry
FlatRow == <<0, 0, 0, 0>>
KinkRow == <<0, 0, 128, 128>>
NaNRow == <<NaN, NaN, NaN, NaN>>
WRows == {FlatRow, KinkRow, NaNRow}

\* what the caller left in the output arrays: np.zeros or np.nan
Priors == {0, NaN}

VARIABLES
    t,          \* the period being solved
    grid_m,     \* par.grid_m
    sol_w,      \* sol.w, one row per ip
    prior,      \* the contents of sol.c and sol.v before the call
    nworkers,   \* threads running the prange
    sol_c,      \* sol.c[s][ip][im]
    sol_v,      \* sol.v[s][ip][im]
    pc,         \* per outer iteration ip: "idle", "opt", "val", "done"
    im,         \* per outer iteration ip: the inner loop index
    loc,        \* per outer iteration ip: the locals p, m, c_low, c_high
    call,       \* per outer iteration ip: its last direct obj_bellman call
    acc         \* history: per kind of access and output cell, the
                \* iterations <<ip, im>> that made it

inputs == <<t, grid_m, sol_w, prior, nworkers>>
vars == <<t, grid_m, sol_w, prior, nworkers, sol_c, sol_v, pc, im, loc, call, acc>>

Rows == 1..Np
Cols == 1..Nm
\* the periods the solution container holds
Periods == {0, 1}

\* the accesses to the output arrays: c[ip,im] = ..., the c[ip,im] read
\* back, v[ip,im] = ...
Kinds == {"c_write", "c_read", "v_write"}

NoLoc == [p |-> 0, m |-> 0, c_low |-> 0, c_high |-> 0]
NoCall == [made |-> FALSE, j |-> 0, c |-> 0, m |-> 0, interp_w |-> FlatRow, ret |-> 0]

Init ==
    /\ t \in Periods
    /\ grid_m \in Grids
    /\ sol_w \in [Rows -> WRows]
    /\ prior \in Priors
    /\ nworkers \in {1, Np}
    /\ sol_c = [s \in Periods |-> [ip \in Rows |-> [j \in Cols |-> prior]]]
    /\ sol_v = [s \in Periods |-> [ip \in Rows |-> [j \in Cols |-> prior]]]
    /\ pc = [ip \in Rows |-> "idle"]
    /\ im = [ip \in Rows |-> 1]
    /\ loc = [ip \in Rows |-> NoLoc]
    /\ call = [ip \in Rows |-> NoCall]
    /\ acc = [k \in Kinds |-> [s \in Periods |-> [ip \in Rows |-> [j \in Cols |-> {}]]]]

\* ---------------------------------------------------------- solve_bellman

\* v = sol.v[t]; c = sol.c[t]: the slice the call works on
slice_zero(tt) == 0
slice(tt) == tt

\* the subscript [ip,im] of the output cell of iteration (ip, im)
out_index_shared(ip, j) == <<1, j>>
out_index(ip, j) == <<ip, j>>

\* c_low = np.fmin(m/2,1e-8)
c_low_max(m) == IF m \div 2 > EPS THEN m \div 2 ELSE EPS
c_low(m) == fmin(m \div 2, EPS)

\* c_high = m
c_high_double(m) == 2 * m
c_high(m) == m

\* an assignment arr[ip,im] = new over the cell's old content
store_accumulate(old, new) == Add(old, new)
store_skip_nonfinite(old, new) == IF IsFinite(new) THEN new ELSE old
store(old, new) == new

\* the c[ip,im] read back as the argument of obj_bellman
cons_read_first_col(C, ip, j) == C[slice(t)][ip][1]
cons_read_next_row(C, ip, j) == C[slice(t)][(ip % Np) + 1][j]
cons_read(C, ip, j) == C[slice(t)][out_index(ip, j)[1]][out_index(ip, j)[2]]

\* v[ip,im] = -obj_bellman(...)
value_of_unnegated(obj) == obj
value_of(obj) == Neg(obj)

\* c[ip,im] = opt_bellman(c_low,c_high,par.tol,m,sol.w[ip],par) on array C
opt_step(C, ip, j, m) ==
    LET idx == out_index(ip, j)
        x == opt_bellman(c_low(m), c_high(m), tol, m, sol_w[ip])
    IN [C EXCEPT ![slice(t)][idx[1]][idx[2]] = store(@, x)]

\* v[ip,im] = -obj_bellman(c[ip,im],m,sol.w[ip],par) on arrays C and V
val_step(C, V, ip, j, m) ==
    LET idx == out_index(ip, j)
        ret == obj_bellman(cons_read(C, ip, j), m, sol_w[ip])
    IN [V EXCEPT ![slice(t)][idx[1]][idx[2]] = store(@, value_of(ret))]

\* history A with an access of kind k to cell idx of slice s by iteration
\* (ip, im[ip])
Access(A, k, s, idx, ip) ==
    [A EXCEPT ![k][s][idx[1]][idx[2]] = @ \cup {<<ip, im[ip]>>}]

Active == {ip \in Rows : pc[ip] \in {"opt", "val"}}

\* a free thread takes up outer iteration ip: p = par.grid_p[ip]
Start(ip) ==
    /\ pc[ip] = "idle"
    /\ Cardinality(Active) < nworkers
    /\ pc' = [pc EXCEPT ![ip] = "opt"]
    /\ loc' = [loc EXCEPT ![ip].p = grid_p[ip]]
    /\ UNCHANGED <<inputs, sol_c, sol_v, im, call, acc>>

\* m = par.grid_m[im]; c_low; c_high; c[ip,im] = opt_bellman(...)
Optimize(ip) ==
    /\ pc[ip] = "opt"
    /\ LET m == grid_m[im[ip]]
       IN /\ sol_c' = opt_step(sol_c, ip, im[ip], m)
          /\ loc' = [loc EXCEPT ![ip].m = m, ![ip].c_low = c_low(m),
                                ![ip].c_high = c_high(m)]
          /\ acc' = Access(acc, "c_write", slice(t), out_index(ip, im[ip]), ip)
    /\ pc' = [pc EXCEPT ![ip] = "val"]
    /\ UNCHANGED <<inputs, sol_v, im, call>>

\* v[ip,im] = -obj_bellman(c[ip,im],m,sol.w[ip],par), and the loop goes on
Value(ip) ==
    /\ pc[ip] = "val"
    /\ LET m == loc[ip].m
           c == cons_read(sol_c, ip, im[ip])
       IN /\ sol_v' = val_step(sol_c, sol_v, ip, im[ip], m)
          /\ call' = [call EXCEPT ![ip] =
                        [made |-> TRUE, j |-> im[ip], c |-> c, m |-> m,
                         interp_w |-> sol_w[ip],
                         ret |-> obj_bellman(c, m, sol_w[ip])]]
          /\ acc' = Access(Access(acc, "c_read", slice(t),
                                  out_index(ip, im[ip]), ip),
                           "v_write", slice(t), out_index(ip, im[ip]), ip)
    /\ IF im[ip] = Nm
       THEN pc' = [pc EXCEPT ![ip] = "done"] /\ im' = im
       ELSE pc' = [pc EXCEPT ![ip] = "opt"] /\ im' = [im EXCEPT ![ip] = @ + 1]
    /\ UNCHANGED <<inputs, sol_c, loc>>

Next == \E ip \in Rows : Start(ip) \/ Optimize(ip) \/ Value(ip)

Spec == Init /\ [][Next]_vars

\* solve_bellman has returned: every outer iteration has finished
AllDone == \A ip \in Rows : pc[ip] = "done"

\* ------------------------------------------------------------- properties

AllPositive == \A j \in Cols : grid_m[j] > 0

\* C1: once solve_bellman has returned on a grid of positive cash-on-hand
\* values, every stored consumption lies in its bracket,
\* min(m/2, 1e-8) <= c[t][ip,im] <= m, and so 0 < c[t][ip,im] <= grid_m[im];
\* the smallest grid value is solved like any other.
C1_ConsumptionInBracket ==
    (AllDone /\ AllPositive) =>
        \A ip \in Rows, j \in Cols :
            LET m == grid_m[j]
                lo == IF m \div 2 < EPS THEN m \div 2 ELSE EPS
                c == sol_c[t][ip][j]
            IN lo <= c /\ c <= m /\ 0 < c

\* a finished solve on a positive grid whose smallest value gives the
\* narrowest bracket (m = 8: [4, 8], no wider than tol)
C1_Witness ==
    /\ AllDone /\ AllPositive /\ grid_m[1] = 8
    /\ \E ip \in Rows : sol_c[t][ip][1] = 6 /\ sol_w[ip] = KinkRow

\* C2: once solve_bellman has returned, every stored value is the negated
\* objective at the stored consumption, with the cell's own m and row of w;
\* and the c cell was read back only after the same iteration wrote it.
C2_ValueMatchesObjective ==
    /\ AllDone =>
        \A ip \in Rows, j \in Cols :
            sol_v[t][ip][j] =
                Neg(obj_bellman(sol_c[t][ip][j], grid_m[j], sol_w[ip]))
    /\ \A s \in Periods, ip \in Rows, j \in Cols :
        acc["c_read"][s][ip][j] \subseteq acc["c_write"][s][ip][j]

\* a finished solve in which a row holds two different consumptions and
\* two different finite values
C2_Witness ==
    /\ AllDone
    /\ \E ip \in Rows :
        /\ sol_c[t][ip][1] # sol_c[t][ip][Nm]
        /\ sol_v[t][ip][1] # sol_v[t][ip][Nm]
        /\ IsFinite(sol_v[t][ip][1]) /\ IsFinite(sol_v[t][ip][Nm])

\* C3: obj_bellman(c, m, interp_w, par) returns
\* -(utility(c) + interp_1d(grid_a, interp_w, m - c)), the interpolator being
\* queried at a = m - c; after the call its arguments are what they were.
C3_ObjectiveFormula ==
    \A ip \in Rows :
        call[ip].made =>
            /\ call[ip].ret =
                Neg(Add(utility_func(call[ip].c),
                        interp_1d(grid_a, call[ip].interp_w,
                                  call[ip].m - call[ip].c)))
            /\ call[ip].interp_w = sol_w[ip]
            /\ call[ip].m = grid_m[call[ip].j]
            /\ call[ip].c = sol_c[t][ip][call[ip].j]

\* a call with savings inside the asset grid and a continuation value that
\* is neither zero nor non-finite
C3_Witness ==
    \E ip \in Rows :
        /\ call[ip].made
        /\ call[ip].m - call[ip].c > grid_a[2]
        /\ interp_1d(grid_a, call[ip].interp_w, call[ip].m - call[ip].c) > 0
        /\ IsFinite(call[ip].ret)

\* C4: every access to a cell (ip, im) of c[t] or v[t] is made by outer
\* iteration ip at its inner index im, so two iterations never touch the
\* same output cell; no cell is written twice, and when solve_bellman has
\* returned every cell of c[t] and of v[t] has been written exactly once.
C4_DisjointWrites ==
    \A s \in Periods, ip \in Rows, j \in Cols :
        /\ \A k \in Kinds : acc[k][s][ip][j] \subseteq {<<ip, j>>}
        /\ \A a \in acc["c_write"][s][ip][j],
              b \in acc["c_write"][s][ip][j] \cup acc["c_read"][s][ip][j] :
                a[1] = b[1]
        /\ \A a, b \in acc["v_write"][s][ip][j] : a[1] = b[1]
        /\ \A k \in {"c_write", "v_write"} :
            /\ Cardinality(acc[k][s][ip][j]) <= 1
            /\ (AllDone /\ s = t) => Cardinality(acc[k][s][ip][j]) = 1

\* two outer iterations are in flight at once, each between its write of c
\* and its write of v, one of them past its first cell
C4_Witness ==
    /\ nworkers > 1
    /\ \E ip1, ip2 \in Rows :
        /\ ip1 # ip2 /\ pc[ip1] = "val" /\ pc[ip2] = "val"
        /\ im[ip1] > 1

\* the sequential run ip = 0..Np-1, im = 0..Nm-1 from arrays C and V,
\* from its k-th cell on
RECURSIVE seq_run(_, _, _)
seq_run(k, C, V) ==
    IF k > Np * Nm THEN [c |-> C, v |-> V]
    ELSE LET ip == ((k - 1) \div Nm) + 1
             j == ((k - 1) % Nm) + 1
             C2 == opt_step(C, ip, j, grid_m[j])
         IN seq_run(k + 1, C2, val_step(C2, V, ip, j, grid_m[j]))

PriorArray == [s \in Periods |-> [ip \in Rows |-> [j \in Cols |-> prior]]]

\* C5: whatever the order in which the outer iterations ran and however
\* many threads ran them, solve_bellman leaves in c and v what the
\* sequential run ip = 0..Np-1 leaves.
C5_OrderIndependent ==
    AllDone =>
        /\ sol_c = seq_run(1, PriorArray, PriorArray).c
        /\ sol_v = seq_run(1, PriorArray, PriorArray).v

\* a finished solve by several threads over rows that differ
C5_Witness ==
    /\ AllDone /\ nworkers = Np /\ Np > 1
    /\ \E ip1, ip2 \in Rows : sol_v[t][ip1] # sol_v[t][ip2]

\* the consumption and the value of one cell as functions of the cell's
\* cash-on-hand and row of w alone
CellC(m, wrow) == opt_bellman(fmin(m \div 2, EPS), m, tol, m, wrow)
CellV(m, wrow) == Neg(obj_bellman(CellC(m, wrow), m, wrow))

\* C6: the result stored at (ip, im) is a function of grid_m[im], w[ip], tol,
\* grid_a and the utility alone: it does not depend on what the output
\* arrays held before, on another cell, on grid_p[ip] or on the previous
\* inner iteration, so two runs on the same inputs agree.
C6_Deterministic ==
    AllDone =>
        \A ip \in Rows, j \in Cols :
            /\ sol_c[t][ip][j] = CellC(grid_m[j], sol_w[ip])
            /\ sol_v[t][ip][j] = CellV(grid_m[j], sol_w[ip])

\* a finished solve over arrays that held nan before, with two rows of
\* equal w (and different grid_p)
C6_Witness ==
    /\ AllDone /\ prior = NaN
    /\ \E ip1, ip2 \in Rows :
        /\ ip1 # ip2 /\ sol_w[ip1] = sol_w[ip2] /\ grid_p[ip1] # grid_p[ip2]
        /\ IsFinite(sol_v[t][ip1][Nm])

\* C7: solve_bellman writes cells of c[t] and v[t] only: the slices of the
\* other periods keep their contents and are never accessed, and no step
\* changes w, grid_m or t.
C7_Frame ==
    [][/\ \A s \in Periods \ {t} :
            /\ sol_c'[s] = sol_c[s] /\ sol_v'[s] = sol_v[s]
            /\ \A k \in Kinds, ip \in Rows, j \in Cols : acc'[k][s][ip][j] = {}
       /\ sol_w' = sol_w /\ grid_m' = grid_m /\ t' = t]_vars

\* a finished solve of period 1, whose slice now differs from period 0's
C7_Witness ==
    /\ AllDone /\ t = 1
    /\ sol_c[1] # sol_c[0] /\ sol_v[1] # sol_v[0]

NonDecreasing(row) ==
    \A i \in 1..(Len(row) - 1) :
        row[i] # NaN /\ row[i + 1] # NaN /\ row[i] <= row[i + 1]

Constant(row) ==
    \A i \in 1..Len(row) : IsFinite(row[i]) /\ row[i] = row[1]

Degenerate(ip, j) == grid_m[j] = 0 \/ \E i \in 1..Len(sol_w[ip]) : ~IsFinite(sol_w[ip][i])

\* C9: a degenerate grid point (zero-width bracket, non-finite objective)
\* does not stop the solve: while an iteration is unfinished some iteration
\* can take its next step, every cell ends up written, the degenerate point shows as a
\* non-finite value in its own cell, and every other cell holds the finite
\* result of its own inputs.
C9_DegenerateIsLocal ==
    /\ ~AllDone =>
        \E ip \in Rows :
            \/ pc[ip] \in {"opt", "val"}
            \/ pc[ip] = "idle" /\ Cardinality(Active) < nworkers
    /\ AllDone =>
        \A ip \in Rows, j \in Cols :
            /\ acc["c_write"][t][ip][j] # {}
            /\ acc["v_write"][t][ip][j] # {}
            /\ Degenerate(ip, j) => ~IsFinite(sol_v[t][ip][j])
            /\ ~Degenerate(ip, j) =>
                /\ IsFinite(sol_c[t][ip][j]) /\ IsFinite(sol_v[t][ip][j])
                /\ sol_v[t][ip][j] = CellV(grid_m[j], sol_w[ip])

\* a finished solve with a zero-width bracket at the first point of a row
\* whose next point is sound, beside a row whose objective is nan
C9_Witness ==
    /\ AllDone /\ grid_m[1] = 0
    /\ \E ip1, ip2 \in Rows :
        /\ sol_v[t][ip1][1] = NegInf /\ IsFinite(sol_v[t][ip1][2])
        /\ sol_v[t][ip2][2] = NaN

\* C10: the optimizer is given the bracket c_low = min(m/2, 1e-8),
\* c_high = m: c_low is 1e-8 when m/2 > 1e-8 and m/2 otherwise, so
\* 0 < c_low < c_high for every m > 0, and c_low = c_high only at m = 0.
C10_Bracket ==
    \A ip \in Rows :
        pc[ip] = "val" =>
            LET m == grid_m[im[ip]]
                lo == loc[ip].c_low
                hi == loc[ip].c_high
            IN /\ loc[ip].m = m
               /\ hi = m
               /\ lo = (IF m \div 2 > EPS THEN EPS ELSE m \div 2)
               /\ m > 0 => (0 < lo /\ lo < hi)
               /\ lo = hi => m = 0

\* the optimizer has just run at a positive smallest grid value whose half
\* is below 1e-8
C10_Witness ==
    \E ip \in Rows :
        /\ pc[ip] = "val" /\ im[ip] = 1
        /\ grid_m[1] > 0 /\ grid_m[1] \div 2 < EPS
        /\ loc[ip].c_low = grid_m[1] \div 2

====
